---- MODULE Spec2Model ----
(***************************************************************************)
(* Model of the AXIOM physics engine (class AxiomGlobalEngine of           *)
(* src/main_app.py): the constructor and the two analysis methods.         *)
(*                                                                         *)
(* Python floats are modelled as IEEE-754 doubles, bit for bit: every      *)
(* arithmetic step is taken in the order the source takes it and rounded   *)
(* as the hardware rounds it, overflow to infinity, nan and the gradual    *)
(* underflow through the subnormals to zero included.  A float division by *)
(* zero raises ZeroDivisionError in Python: TrueDiv yields the value ZDE   *)
(* there and analyze_pump turns it into a raised exception.                *)
(***************************************************************************)
EXTENDS Integers, Sequences, FiniteSets, TLC

VARIABLES cfg, self, args, exc, result, ncalls

vars == <<cfg, self, args, exc, result, ncalls>>

----------------------------------------------------------------------------
(* Python's float: IEEE-754 binary64 with round-to-nearest, ties to even.  *)
(* A float is [neg, man, exp].  A finite one stands for                    *)
(* (-1)^neg * man * 2^exp, where man is a natural number written as a      *)
(* little-endian sequence of limbs in base 2^14: 53 bits and               *)
(* -1074 <= exp <= 971 for a normal number, fewer bits and exp = -1074 for *)
(* a subnormal one, the empty mantissa and exponent 0 for zero.  As the    *)
(* all-ones exponent field does in the format, exp = 1024 marks the other  *)
(* values: infinity has the empty mantissa, nan the mantissa <<1>>.  Zero  *)
(* and nan carry no sign: the program performs no operation that tells     *)
(* -0.0 from 0.0 or one nan from another.                                  *)

Base == 2^14

Limb(a, k) == IF k >= 1 /\ k <= Len(a) THEN a[k] ELSE 0

RECURSIVE Trim(_)
Trim(a) ==
    IF a = <<>> THEN a
    ELSE IF a[Len(a)] = 0 THEN Trim(SubSeq(a, 1, Len(a) - 1))
    ELSE a

RECURSIVE BigFromNat(_)
BigFromNat(n) == IF n = 0 THEN <<>> ELSE <<n % Base>> \o BigFromNat(n \div Base)

RECURSIVE CmpFrom(_, _, _)
CmpFrom(a, b, k) ==
    IF k = 0 THEN 0
    ELSE IF Limb(a, k) < Limb(b, k) THEN -1
    ELSE IF Limb(a, k) > Limb(b, k) THEN 1
    ELSE CmpFrom(a, b, k - 1)

BigCmp(a, b) == CmpFrom(a, b, IF Len(a) > Len(b) THEN Len(a) ELSE Len(b))

RECURSIVE AddFrom(_, _, _, _)
AddFrom(a, b, k, carry) ==
    IF k > Len(a) /\ k > Len(b) THEN (IF carry = 0 THEN <<>> ELSE <<carry>>)
    ELSE <<(Limb(a, k) + Limb(b, k) + carry) % Base>>
         \o AddFrom(a, b, k + 1, (Limb(a, k) + Limb(b, k) + carry) \div Base)

BigAdd(a, b) == AddFrom(a, b, 1, 0)

RECURSIVE SubFrom(_, _, _, _)
SubFrom(a, b, k, borrow) ==
    IF k > Len(a) THEN <<>>
    ELSE <<(Limb(a, k) - Limb(b, k) - borrow + Base) % Base>>
         \o SubFrom(a, b, k + 1, IF Limb(a, k) - Limb(b, k) - borrow < 0 THEN 1 ELSE 0)

BigSub(a, b) == Trim(SubFrom(a, b, 1, 0))

RECURSIVE MulSmallFrom(_, _, _, _)
MulSmallFrom(a, m, k, carry) ==
    IF k > Len(a) THEN (IF carry = 0 THEN <<>> ELSE <<carry>>)
    ELSE <<(a[k] * m + carry) % Base>>
         \o MulSmallFrom(a, m, k + 1, (a[k] * m + carry) \div Base)

MulSmall(a, m) == IF m = 0 THEN <<>> ELSE MulSmallFrom(a, m, 1, 0)

ShiftLimb(a) == IF a = <<>> THEN a ELSE <<0>> \o a

RECURSIVE BigMulFrom(_, _, _)
BigMulFrom(a, b, j) ==
    IF j > Len(b) THEN <<>>
    ELSE BigAdd(MulSmall(a, b[j]), ShiftLimb(BigMulFrom(a, b, j + 1)))

BigMul(a, b) == BigMulFrom(a, b, 1)

Reverse(s) == [i \in 1..Len(s) |-> s[Len(s) + 1 - i]]

(* Limbs lo..hi of a divided by the small m with the remainder rem carried *)
(* in: the upper half first, then the lower half with the remainder the    *)
(* upper half leaves.  The quotient comes most significant limb first.     *)
RECURSIVE DivMod(_, _, _, _, _)
DivModJoin(up, low) == [quot |-> up.quot \o low.quot, rem |-> low.rem]

DivModLow(a, m, lo, mid, up) == DivModJoin(up, DivMod(a, m, lo, mid, up.rem))

DivMod(a, m, lo, hi, rem) ==
    IF lo = hi
    THEN [quot |-> <<(rem * Base + a[lo]) \div m>>, rem |-> (rem * Base + a[lo]) % m]
    ELSE DivModLow(a, m, lo, (lo + hi) \div 2,
                   DivMod(a, m, (lo + hi) \div 2 + 1, hi, rem))

DivSmall(a, m) ==
    IF a = <<>> THEN a ELSE Trim(Reverse(DivMod(a, m, 1, Len(a), 0).quot))

ModSmall(a, m) == IF a = <<>> THEN 0 ELSE DivMod(a, m, 1, Len(a), 0).rem

Shl(a, k) ==
    IF a = <<>> THEN a
    ELSE [i \in 1..(k \div 14) |-> 0] \o MulSmall(a, 2^(k % 14))

DropLimbs(a, w) == IF w >= Len(a) THEN <<>> ELSE SubSeq(a, w + 1, Len(a))

ShrBits(a, b) ==
    Trim([i \in 1..Len(a) |-> (a[i] \div 2^b) + (Limb(a, i + 1) % 2^b) * 2^(14 - b)])

Shr(a, k) == ShrBits(DropLimbs(a, k \div 14), k % 14)

RECURSIVE BitLenLimb(_)
BitLenLimb(n) == IF n = 0 THEN 0 ELSE 1 + BitLenLimb(n \div 2)

BitLen(a) == IF a = <<>> THEN 0 ELSE 14 * (Len(a) - 1) + BitLenLimb(a[Len(a)])

BitAt(a, k) == (Limb(a, k \div 14 + 1) \div 2^(k % 14)) % 2

LowNonZero(a, k) ==
    \/ \E i \in 1..(k \div 14) : Limb(a, i) # 0
    \/ Limb(a, k \div 14 + 1) % 2^(k % 14) # 0

(* n / 2^k rounded to the nearest natural, ties to even; an inexact n      *)
(* (sticky) stands for a value slightly above n.                           *)
RoundShr(n, k, sticky) ==
    IF BitAt(n, k - 1) = 1 /\ (sticky \/ LowNonZero(n, k - 1) \/ BitAt(n, k) = 1)
    THEN BigAdd(Shr(n, k), <<1>>)
    ELSE Shr(n, k)

MinExp == -1074

MaxExp == 971

Zero == [neg |-> FALSE, man |-> <<>>, exp |-> 0]

Inf(neg) == [neg |-> neg, man |-> <<>>, exp |-> 1024]

NaN == [neg |-> FALSE, man |-> <<1>>, exp |-> 1024]

(* The outcome of a division by zero: no float has an empty mantissa and a *)
(* non-zero exponent.                                                      *)
ZDE == [neg |-> FALSE, man |-> <<>>, exp |-> 1]

IsZDE(x) == x = ZDE

IsZero(x) == x = Zero

IsInf(x) == x.exp = 1024 /\ x.man = <<>>

IsNaN(x) == x = NaN

(* A result beyond the largest finite float is an infinity.                *)
Overflow(x) == IF x.exp > MaxExp THEN Inf(x.neg) ELSE x

Pack(neg, q, e) ==
    IF q = <<>> THEN Zero
    ELSE IF BitLen(q) = 54 THEN [neg |-> neg, man |-> Shr(q, 1), exp |-> e + 1]
    ELSE [neg |-> neg, man |-> q, exp |-> e]

RoundTo53(neg, n, e, sticky, sh) ==
    IF sh <= 0 THEN Overflow([neg |-> neg, man |-> Shl(n, -sh), exp |-> e + sh])
    ELSE Overflow(Pack(neg, RoundShr(n, sh, sticky), e + sh))

(* The float nearest to n * 2^e, n a natural number: n is cut to 53 bits,  *)
(* or to fewer where the exponent would fall below that of the subnormals. *)
Round(neg, n, e, sticky) ==
    IF n = <<>> THEN Zero
    ELSE RoundTo53(neg, n, e, sticky,
                   IF BitLen(n) - 53 > MinExp - e THEN BitLen(n) - 53 ELSE MinExp - e)

(* float(n) of an int, and the float a decimal literal n/d denotes.        *)
Q(n) == Round(n < 0, BigFromNat(IF n < 0 THEN -n ELSE n), 0, FALSE)

(* The float 2^k: the largest finite power of two at k = 1023, the         *)
(* smallest subnormal at k = -1074.                                        *)
Pow2(k) == Round(FALSE, <<1>>, k, FALSE)

Mul(x, y) ==
    IF IsZDE(x) \/ IsZDE(y) THEN ZDE
    ELSE IF IsNaN(x) \/ IsNaN(y) THEN NaN
    ELSE IF IsInf(x) \/ IsInf(y)
    THEN (IF IsZero(x) \/ IsZero(y) THEN NaN ELSE Inf(x.neg # y.neg))
    ELSE IF IsZero(x) \/ IsZero(y) THEN Zero
    ELSE Round(x.neg # y.neg, BigMul(x.man, y.man), x.exp + y.exp, FALSE)

RECURSIVE DigitDown(_, _, _)
DigitDown(r, b, d) ==
    IF BigCmp(MulSmall(b, d), r) = 1 THEN DigitDown(r, b, d - 1) ELSE d

Digit(r, b) ==
    DigitDown(r, b, IF (Limb(r, 5) * Base + Limb(r, 4)) \div b[4] >= Base THEN Base - 1
                    ELSE (Limb(r, 5) * Base + Limb(r, 4)) \div b[4])

RECURSIVE LongDiv(_, _, _, _)
LongDivStep(r, b, n, q, d) ==
    IF n = 1
    THEN [quot |-> Trim(<<d>> \o q), inexact |-> BigSub(r, MulSmall(b, d)) # <<>>]
    ELSE LongDiv(ShiftLimb(BigSub(r, MulSmall(b, d))), b, n - 1, <<d>> \o q)

LongDiv(r, b, n, q) == LongDivStep(r, b, n, q, Digit(r, b))

RoundQuot(neg, qr, e) == Round(neg, qr.quot, e, qr.inexact)

(* The mantissa of a subnormal brought to 53 bits, times 8: four full      *)
(* limbs.                                                                  *)
Normalized(m) == Shl(m, 56 - BitLen(m))

TrueDiv(x, y) ==
    IF IsZDE(x) \/ IsZDE(y) \/ IsZero(y) THEN ZDE
    ELSE IF IsNaN(x) \/ IsNaN(y) THEN NaN
    ELSE IF IsInf(x) THEN (IF IsInf(y) THEN NaN ELSE Inf(x.neg # y.neg))
    ELSE IF IsInf(y) \/ IsZero(x) THEN Zero
    ELSE RoundQuot(x.neg # y.neg,
                   LongDiv(Normalized(x.man), Normalized(y.man), 5, <<>>),
                   x.exp - y.exp + BitLen(x.man) - BitLen(y.man) - 56)

Rat(n, d) == TrueDiv(Q(n), Q(d))

AddAligned(xneg, a, yneg, b, e) ==
    IF xneg = yneg THEN Round(xneg, BigAdd(a, b), e, FALSE)
    ELSE IF BigCmp(a, b) >= 0 THEN Round(xneg, BigSub(a, b), e, FALSE)
    ELSE Round(yneg, BigSub(b, a), e, FALSE)

AddOrdered(x, y) ==
    IF x.exp - y.exp > 64 THEN x
    ELSE AddAligned(x.neg, Shl(x.man, x.exp - y.exp), y.neg, y.man, y.exp)

Add(x, y) ==
    IF IsZDE(x) \/ IsZDE(y) THEN ZDE
    ELSE IF IsNaN(x) \/ IsNaN(y) THEN NaN
    ELSE IF IsInf(x) THEN (IF IsInf(y) /\ x.neg # y.neg THEN NaN ELSE x)
    ELSE IF IsInf(y) THEN y
    ELSE IF IsZero(x) THEN y
    ELSE IF IsZero(y) THEN x
    ELSE IF x.exp >= y.exp THEN AddOrdered(x, y)
    ELSE AddOrdered(y, x)

Neg(x) ==
    IF IsZDE(x) \/ IsZero(x) \/ IsNaN(x) THEN x ELSE [x EXCEPT !.neg = ~x.neg]

Sub(x, y) == Add(x, Neg(y))

MagLt(x, y) ==
    IF IsInf(x) THEN FALSE
    ELSE IF IsInf(y) THEN TRUE
    ELSE IF x.exp # y.exp THEN x.exp < y.exp
    ELSE BigCmp(x.man, y.man) = -1

Lt(x, y) ==
    IF IsZDE(x) \/ IsZDE(y) \/ IsNaN(x) \/ IsNaN(y) THEN FALSE
    ELSE IF IsZero(x) THEN ~IsZero(y) /\ ~y.neg
    ELSE IF IsZero(y) THEN x.neg
    ELSE IF x.neg # y.neg THEN x.neg
    ELSE IF x.neg THEN MagLt(y, x)
    ELSE MagLt(x, y)

Gt(x, y) == Lt(y, x)

Abs(x) == [x EXCEPT !.neg = FALSE]

Max2(x, y) == IF IsZDE(x) \/ IsZDE(y) THEN ZDE ELSE IF Lt(x, y) THEN y ELSE x

Min2(x, y) == IF IsZDE(x) \/ IsZDE(y) THEN ZDE ELSE IF Lt(y, x) THEN y ELSE x

(* "%.1f": the decimal digits of the float rounded to one decimal place,   *)
(* ties of the binary value to even.                                       *)
DecimalDigit == <<"0", "1", "2", "3", "4", "5", "6", "7", "8", "9">>

RECURSIVE DecimalSmall(_)
DecimalSmall(k) ==
    IF k < 10 THEN DecimalDigit[k + 1]
    ELSE DecimalSmall(k \div 10) \o DecimalDigit[(k % 10) + 1]

FourDigits(k) ==
    DecimalDigit[(k \div 1000) + 1] \o DecimalDigit[((k \div 100) % 10) + 1]
        \o DecimalDigit[((k \div 10) % 10) + 1] \o DecimalDigit[(k % 10) + 1]

(* The decimal digits of a natural number, four at a time.                 *)
RECURSIVE Decimal(_)
Decimal(n) ==
    IF Len(n) <= 1 /\ Limb(n, 1) < 10000 THEN DecimalSmall(Limb(n, 1))
    ELSE Decimal(DivSmall(n, 10000)) \o FourDigits(ModSmall(n, 10000))

Tenths(x) ==
    IF x.exp >= 0 THEN Shl(MulSmall(x.man, 10), x.exp)
    ELSE RoundShr(MulSmall(x.man, 10), -x.exp, FALSE)

FmtTenths(neg, t) ==
    (IF neg THEN "-" ELSE "") \o Decimal(DivSmall(t, 10))
        \o "." \o DecimalDigit[ModSmall(t, 10) + 1]

Fmt1(x) ==
    IF IsNaN(x) THEN "nan"
    ELSE IF IsInf(x) THEN (IF x.neg THEN "-inf" ELSE "inf")
    ELSE FmtTenths(x.neg, Tenths(x))

(* A status string is a sequence of tokens: literal text, or a formatted   *)
(* number.  "CRITICAL" in s holds iff one of the literal tokens is the     *)
(* word CRITICAL (no other token of the program contains that word).       *)
Lit(w) == [lit |-> w, num |-> ""]

Num1(x) == [lit |-> "%.1f", num |-> Fmt1(x)]

HasCritical(s) == \E k \in 1..Len(s) : s[k].lit = "CRITICAL"

----------------------------------------------------------------------------
(* AxiomGlobalEngine.__init__                                              *)

__init__(c) ==
    [RATED_POWER |-> IF Gt(c.rated_kw, Q(0)) THEN Abs(c.rated_kw) ELSE Q(1),
     UNIT_COST   |-> Abs(c.cost_per_unit),
     CURR        |-> c.currency_symbol,
     CO2_FACTOR  |-> c.co2_factor]

----------------------------------------------------------------------------
(* AxiomGlobalEngine.analyze_energy_health                                 *)

volt_status_MutInclusive(voltage) ==
    IF ~Gt(voltage, Q(370)) THEN <<Lit("CRITICAL"), Lit(": "), Lit("UNDER-VOLTAGE")>>
    ELSE IF ~Lt(voltage, Q(460)) THEN <<Lit("CRITICAL"), Lit(": "), Lit("SURGE")>>
    ELSE <<Lit("STABLE")>>

volt_status(voltage) ==
    IF Lt(voltage, Q(370)) THEN <<Lit("CRITICAL"), Lit(": "), Lit("UNDER-VOLTAGE")>>
    ELSE IF Gt(voltage, Q(460)) THEN <<Lit("CRITICAL"), Lit(": "), Lit("SURGE")>>
    ELSE <<Lit("STABLE")>>

avg_amps(i1, i2, i3) == TrueDiv(Add(Add(i1, i2), i3), Q(3))

max_dev(i1, i2, i3) ==
    LET avg == avg_amps(i1, i2, i3)
    IN  Max2(Max2(Abs(Sub(i1, avg)), Abs(Sub(i2, avg))), Abs(Sub(i3, avg)))

imbalance_pct(i1, i2, i3) ==
    LET avg == avg_amps(i1, i2, i3)
    IN  IF Gt(avg, Q(0))
        THEN Mul(TrueDiv(max_dev(i1, i2, i3), avg), Q(100))
        ELSE Q(0)

imb_status_MutWarningAtTwo(pct) ==
    IF Gt(pct, Q(5)) THEN <<Lit("CRITICAL"), Lit(": "), Num1(pct), Lit("% IMBALANCE")>>
    ELSE IF ~Lt(pct, Q(2))
    THEN <<Lit("WARNING"), Lit(": "), Num1(pct), Lit("% IMBALANCE")>>
    ELSE <<Lit("BALANCED")>>

imb_status(pct) ==
    IF Gt(pct, Q(5)) THEN <<Lit("CRITICAL"), Lit(": "), Num1(pct), Lit("% IMBALANCE")>>
    ELSE IF Gt(pct, Q(2)) THEN <<Lit("WARNING"), Lit(": "), Num1(pct), Lit("% IMBALANCE")>>
    ELSE <<Lit("BALANCED")>>

analyze_energy_health(voltage, i1, i2, i3) ==
    [volt_status   |-> volt_status(voltage),
     imb_status    |-> imb_status(imbalance_pct(i1, i2, i3)),
     imbalance_pct |-> imbalance_pct(i1, i2, i3),
     avg_amps      |-> avg_amps(i1, i2, i3)]

----------------------------------------------------------------------------
(* AxiomGlobalEngine.analyze_pump, one definition per local of the method. *)

floor_voltage(voltage) == IF Lt(voltage, Q(1)) THEN Q(1) ELSE voltage

real_kw_in_MutNoPowerFactor(voltage, avg, pf) ==
    TrueDiv(Mul(Mul(voltage, avg), Rat(1732, 1000)), Q(1000))

real_kw_in(voltage, avg, pf) ==
    TrueDiv(Mul(Mul(Mul(voltage, avg), pf), Rat(1732, 1000)), Q(1000))

rated_amps_est(rated_power, voltage, pf) ==
    TrueDiv(Mul(rated_power, Q(1000)), Mul(Mul(voltage, Rat(1732, 1000)), pf))

load_percent(avg, rated_amps) ==
    IF Gt(rated_amps, Q(0)) THEN Mul(TrueDiv(avg, rated_amps), Q(100)) ELSE Q(0)

head_m(pressure_bar) == Mul(pressure_bar, Rat(10197, 1000))

est_eff_overall_MutRetuned == Rat(40, 100)

est_eff_overall == Rat(60, 100)

est_flow(kw, head) ==
    IF Gt(head, Q(1))
    THEN TrueDiv(Mul(Mul(kw, est_eff_overall), Q(3600)), Mul(head, Rat(981, 100)))
    ELSE Q(0)

est_motor_eff(load) ==
    IF Lt(load, Q(50)) THEN Rat(85, 100)
    ELSE IF Gt(load, Q(110)) THEN Rat(89, 100)
    ELSE Rat(92, 100)

shaft_power_kw(kw, motor_eff) == Mul(kw, motor_eff)

hydraulic_power(flow, head) ==
    TrueDiv(Mul(Mul(flow, head), Rat(981, 100)), Q(3600))

pump_eff_pct(hydraulic, shaft) ==
    IF Gt(shaft, Rat(1, 10))
    THEN Min2(Rat(999, 10), Mul(TrueDiv(hydraulic, shaft), Q(100)))
    ELSE Q(0)

total_sys_eff(hydraulic, kw) ==
    IF Gt(kw, Q(0)) THEN Mul(TrueDiv(hydraulic, kw), Q(100)) ELSE Q(0)

(* The if/elif chain of the fault classifier: the condition of each branch *)
(* and the chain itself.  The reason of each branch is a status string too *)
(* (that of the first rule is the voltage status itself).                  *)
Verdict(status, reason, severity) ==
    [status |-> status, reason |-> reason, severity |-> severity]

is_dry_run(load) == Lt(load, Q(30))

is_burst_pipe(load, pressure_bar) == Gt(load, Q(65)) /\ Lt(pressure_bar, Rat(15, 10))

is_blockage_MutAboveNine(pressure_bar, flow) == Gt(pressure_bar, Q(9)) /\ Lt(flow, Q(2))

is_blockage(pressure_bar, flow) == Gt(pressure_bar, Q(8)) /\ Lt(flow, Q(2))

is_overload(load) == Gt(load, Q(105))

is_poor_efficiency(pump_eff, severity) == Lt(pump_eff, Q(45)) /\ severity = "NORMAL"

diagnosis_MutOverloadFirst(vstat, istat, load, pressure_bar, flow, pump_eff) ==
    IF HasCritical(vstat)
    THEN Verdict("DANGER: GRID INSTABILITY", vstat, "CRITICAL")
    ELSE IF HasCritical(istat)
    THEN Verdict("DANGER: PHASE IMBALANCE",
                 <<Lit("Motor windings degrading.")>>, "CRITICAL")
    ELSE IF is_overload(load)
    THEN Verdict("WARNING: MOTOR OVERLOAD", <<Lit("Thermal risk.")>>, "WARNING")
    ELSE IF is_dry_run(load)
    THEN Verdict("CRITICAL: DRY RUN DETECTED",
                 <<Lit("Amperage too low (<30%). Pump likely spinning in air.")>>,
                 "CRITICAL")
    ELSE IF is_burst_pipe(load, pressure_bar)
    THEN Verdict("CRITICAL: BURST PIPE / ZERO HEAD",
                 <<Lit("High Power vs. Low Pressure. Massive hydraulic loss.")>>,
                 "CRITICAL")
    ELSE IF is_blockage(pressure_bar, flow)
    THEN Verdict("WARNING: BLOCKAGE / DEAD-HEAD",
                 <<Lit("Pressure exceeding safety limits with zero flow.")>>,
                 "WARNING")
    ELSE IF is_poor_efficiency(pump_eff, "NORMAL")
    THEN Verdict("WARNING: POOR EFFICIENCY",
                 <<Lit("Pump hydraulic efficiency is very low. Possible worn impeller.")>>,
                 "WARNING")
    ELSE Verdict("OPTIMAL",
                 <<Lit("System operating within normal parameters.")>>, "NORMAL")

diagnosis(vstat, istat, load, pressure_bar, flow, pump_eff) ==
    IF HasCritical(vstat)
    THEN Verdict("DANGER: GRID INSTABILITY", vstat, "CRITICAL")
    ELSE IF HasCritical(istat)
    THEN Verdict("DANGER: PHASE IMBALANCE",
                 <<Lit("Motor windings degrading.")>>, "CRITICAL")
    ELSE IF is_dry_run(load)
    THEN Verdict("CRITICAL: DRY RUN DETECTED",
                 <<Lit("Amperage too low (<30%). Pump likely spinning in air.")>>,
                 "CRITICAL")
    ELSE IF is_burst_pipe(load, pressure_bar)
    THEN Verdict("CRITICAL: BURST PIPE / ZERO HEAD",
                 <<Lit("High Power vs. Low Pressure. Massive hydraulic loss.")>>,
                 "CRITICAL")
    ELSE IF is_blockage(pressure_bar, flow)
    THEN Verdict("WARNING: BLOCKAGE / DEAD-HEAD",
                 <<Lit("Pressure exceeding safety limits with zero flow.")>>,
                 "WARNING")
    ELSE IF is_overload(load)
    THEN Verdict("WARNING: MOTOR OVERLOAD", <<Lit("Thermal risk.")>>, "WARNING")
    ELSE IF is_poor_efficiency(pump_eff, "NORMAL")
    THEN Verdict("WARNING: POOR EFFICIENCY",
                 <<Lit("Pump hydraulic efficiency is very low. Possible worn impeller.")>>,
                 "WARNING")
    ELSE Verdict("OPTIMAL",
                 <<Lit("System operating within normal parameters.")>>, "NORMAL")

cost_per_month(kw, unit_cost) == Mul(Mul(Mul(kw, unit_cost), Q(24)), Q(30))

co2_per_month(kw, co2_factor) ==
    TrueDiv(Mul(Mul(Mul(kw, co2_factor), Q(24)), Q(30)), Q(1000))

optimal_kw(hydraulic) == TrueDiv(TrueDiv(hydraulic, Rat(60, 100)), Rat(92, 100))

potential_savings_MutFlatAlways(total_eff, hydraulic, cost, unit_cost, severity) ==
    IF Lt(total_eff, Q(50)) /\ Gt(total_eff, Q(0))
    THEN Max2(Q(0), Sub(cost, Mul(Mul(Mul(optimal_kw(hydraulic), unit_cost), Q(24)), Q(30))))
    ELSE Mul(cost, Rat(25, 100))

potential_savings(total_eff, hydraulic, cost, unit_cost, severity) ==
    IF Lt(total_eff, Q(50)) /\ Gt(total_eff, Q(0))
    THEN Max2(Q(0), Sub(cost, Mul(Mul(Mul(optimal_kw(hydraulic), unit_cost), Q(24)), Q(30))))
    ELSE IF severity # "NORMAL" THEN Mul(cost, Rat(25, 100))
    ELSE Q(0)

(* The method body.  The locals are threaded through as one record, each   *)
(* step adding the locals the source assigns next; returned builds the     *)
(* outcome: the exception a division by zero raises, or the returned dict. *)
locals_entry(s, a) ==
    [RATED_POWER |-> s.RATED_POWER, UNIT_COST |-> s.UNIT_COST,
     CO2_FACTOR |-> s.CO2_FACTOR, CURR |-> s.CURR,
     i1 |-> a.i1, i2 |-> a.i2, i3 |-> a.i3,
     pressure_bar |-> a.pressure_bar, pf |-> a.pf,
     voltage |-> floor_voltage(a.voltage)]

with_health(L) ==
    L @@ [eh |-> analyze_energy_health(L.voltage, L.i1, L.i2, L.i3)]

with_power(L) ==
    L @@ [real_kw_in |-> real_kw_in(L.voltage, L.eh.avg_amps, L.pf),
          rated_amps_est |-> rated_amps_est(L.RATED_POWER, L.voltage, L.pf),
          head_m |-> head_m(L.pressure_bar)]

with_load_flow(L) ==
    L @@ [load_percent |-> load_percent(L.eh.avg_amps, L.rated_amps_est),
          est_flow |-> est_flow(L.real_kw_in, L.head_m)]

with_motor(L) ==
    L @@ [est_motor_eff |-> est_motor_eff(L.load_percent),
          hydraulic_power |-> hydraulic_power(L.est_flow, L.head_m)]

with_shaft(L) ==
    L @@ [shaft_power_kw |-> shaft_power_kw(L.real_kw_in, L.est_motor_eff),
          total_sys_eff |-> total_sys_eff(L.hydraulic_power, L.real_kw_in)]

with_pump_eff(L) ==
    L @@ [pump_eff_pct |-> pump_eff_pct(L.hydraulic_power, L.shaft_power_kw)]

with_verdict(L) ==
    L @@ [verdict |-> diagnosis(L.eh.volt_status, L.eh.imb_status, L.load_percent,
                                L.pressure_bar, L.est_flow, L.pump_eff_pct),
          cost_per_month |-> cost_per_month(L.real_kw_in, L.UNIT_COST),
          co2_per_month |-> co2_per_month(L.real_kw_in, L.CO2_FACTOR)]

with_savings(L) ==
    L @@ [potential_savings |->
            potential_savings(L.total_sys_eff, L.hydraulic_power, L.cost_per_month,
                              L.UNIT_COST, L.verdict.severity)]

returned(L) ==
    IF \E v \in {L.eh.avg_amps, L.eh.imbalance_pct, L.real_kw_in, L.rated_amps_est,
                 L.load_percent, L.est_flow, L.hydraulic_power, L.pump_eff_pct,
                 L.total_sys_eff, L.co2_per_month, L.potential_savings} : IsZDE(v)
    THEN [exc |-> "ZeroDivisionError", ret |-> <<>>]
    ELSE [exc |-> "none",
          ret |-> << [kw |-> L.real_kw_in, flow |-> L.est_flow,
                      cost_mo |-> L.cost_per_month, savings |-> L.potential_savings,
                      co2_ton |-> L.co2_per_month, status |-> L.verdict.status,
                      reason |-> L.verdict.reason, severity |-> L.verdict.severity,
                      head |-> L.head_m, load_pct |-> L.load_percent,
                      currency |-> L.CURR, volt_status |-> L.eh.volt_status,
                      imb_status |-> L.eh.imb_status, imb_pct |-> L.eh.imbalance_pct,
                      input_volts |-> L.voltage,
                      eff_motor |-> Mul(L.est_motor_eff, Q(100)),
                      eff_pump |-> L.pump_eff_pct, eff_total |-> L.total_sys_eff] >>]

analyze_pump(s, a) ==
    returned(with_savings(with_verdict(with_pump_eff(with_shaft(with_motor(
        with_load_flow(with_power(with_health(locals_entry(s, a))))))))))

(* The engine object after a call: analyze_pump assigns no attribute.      *)
self_after_analyze_pump(s, a) == s

----------------------------------------------------------------------------
(* Inputs.                                                                 *)

MaxCalls == 3

Config(rated_kw, cost_per_unit, co2_factor) ==
    [rated_kw |-> rated_kw, cost_per_unit |-> cost_per_unit,
     currency_symbol |-> "Tsh", co2_factor |-> co2_factor]

(* The configurations of the tests and of the clamping cases, two whose    *)
(* rating puts a load a rounding error away from a threshold, and a rating *)
(* of 50 W, under which a shaft power below 0.1 kW is a load above 30 %.   *)
Configs ==
    {Config(Q(30), Q(280), Rat(4, 10)), Config(Q(1), Q(280), Rat(4, 10)),
     Config(Rat(5, 100), Q(280), Rat(4, 10)),
     Config(Q(0), Q(0), Rat(4, 10)), Config(Q(-5), Q(-3), Q(0)),
     Config(Rat(1732, 1000), Q(280), Rat(4, 10)),
     Config(Rat(41568, 10000), Q(280), Rat(4, 10))}

Voltages == {Q(0), Q(1), Q(369), Q(370), Q(371), Q(415), Q(460), Q(461)}

Amps(i1, i2, i3) == <<i1, i2, i3>>

(* Phase currents: balanced, zero, negative and mixed ones, those of a     *)
(* loaded 30 kW motor, and currents at the imbalance thresholds, some of   *)
(* which the float arithmetic moves off the threshold.                     *)
LowCurrents ==
    {Amps(Q(10), Q(10), Q(10)), Amps(Q(0), Q(0), Q(0)),
     Amps(Q(-10), Q(-10), Q(-10)), Amps(Q(5), Q(-5), Q(0)),
     Amps(Q(-4), Q(-6), Q(-5)),
     Amps(Q(4), Q(6), Q(5)), Amps(Q(24), Q(25), Q(26)),
     Amps(Q(1), Q(1), Q(1)), Amps(Q(2), Q(2), Q(2)),
     Amps(Rat(2, 5), Rat(2, 5), Rat(2, 5)), Amps(Q(20), Q(20), Q(20))}

NameplateCurrents ==
    {Amps(Q(55), Q(54), Q(56)), Amps(Q(50), Q(60), Q(55)), Amps(Q(60), Q(60), Q(60))}

BoundaryCurrents ==
    {Amps(Q(49), Q(50), Q(51)), Amps(Q(19), Q(20), Q(21)),
     Amps(Rat(49, 5), Q(10), Rat(51, 5)), Amps(Rat(147, 10), Q(15), Rat(153, 10)),
     Amps(Rat(19, 10), Q(2), Rat(21, 10)), Amps(Rat(15, 10), Rat(16, 10), Rat(17, 10)),
     Amps(Rat(1, 10), Rat(2, 10), Rat(-3, 10))}

Pressures ==
    {Q(-1), Q(0), Rat(1, 10), Rat(14, 10), Rat(15, 10), Rat(42, 10), Q(8), Q(9), Q(12)}

PowerFactors == {Rat(85, 100), Q(1), Q(0), Rat(-85, 100)}

Reading(voltage, amps, pressure_bar, pf) ==
    [voltage |-> voltage, i1 |-> amps[1], i2 |-> amps[2], i3 |-> amps[3],
     pressure_bar |-> pressure_bar, pf |-> pf]

(* Every voltage band on a few currents; every current at every pressure   *)
(* at 415 V; every power factor on a few currents; and readings whose load *)
(* meets a threshold up to rounding.                                       *)
VoltageSweep ==
    {Reading(v, i, p, Rat(85, 100)) :
        v \in Voltages,
        i \in {Amps(Q(10), Q(10), Q(10)), Amps(Q(55), Q(54), Q(56)),
               Amps(Q(19), Q(20), Q(21)), Amps(Q(1), Q(1), Q(1)),
               Amps(Q(-10), Q(-10), Q(-10)), Amps(Q(50), Q(60), Q(55))},
        p \in {Rat(14, 10), Rat(42, 10), Q(9)}}

CurrentSweep ==
    {Reading(Q(415), i, p, Rat(85, 100)) :
        i \in LowCurrents \cup NameplateCurrents \cup BoundaryCurrents,
        p \in Pressures}

FactorSweep ==
    {Reading(Q(415), i, p, f) :
        i \in {Amps(Q(10), Q(10), Q(10)), Amps(Q(0), Q(0), Q(0)),
               Amps(Q(-10), Q(-10), Q(-10)), Amps(Q(-4), Q(-6), Q(-5)),
               Amps(Q(55), Q(54), Q(56)), Amps(Q(1), Q(1), Q(1)),
               Amps(Q(60), Q(60), Q(60))},
        p \in {Q(0), Rat(14, 10), Rat(42, 10), Q(9)},
        f \in PowerFactors}

RoundingReadings ==
    {Reading(Q(400), Amps(Q(1), Q(1), Q(1)), Rat(42, 10), Rat(75, 100)),
     Reading(Q(400), Amps(Rat(39, 10), Rat(39, 10), Rat(39, 10)), Rat(14, 10), Q(1)),
     Reading(Q(420), Amps(Q(15), Q(15), Q(15)), Rat(42, 10), Rat(8, 10))}

(* Readings under which the blockage, overload and poor-efficiency rules   *)
(* hold two or three at a time and no earlier rule does: small currents at *)
(* 12 bar and at 4.2 bar.                                                  *)
PrecedenceReadings ==
    {Reading(Q(415), Amps(Rat(175, 100), Rat(175, 100), Rat(175, 100)), Q(12), Rat(85, 100)),
     Reading(Q(415), Amps(Rat(1, 10), Rat(1, 10), Rat(1, 10)), Q(12), Rat(85, 100)),
     Reading(Q(415), Amps(Rat(5, 100), Rat(5, 100), Rat(5, 100)), Q(12), Rat(85, 100)),
     Reading(Q(415), Amps(Rat(1, 10), Rat(1, 10), Rat(1, 10)), Rat(42, 10), Rat(85, 100))}

(* Readings at the ends of the float range: currents whose sum overflows,  *)
(* a current the average underflows to zero, subnormal currents, opposed   *)
(* currents far above their average, a voltage whose power overflows, a    *)
(* power factor under which the rated current overflows, and subnormal     *)
(* currents at 48 bar, whose hydraulic power rounds to a quarter of the    *)
(* real power.                                                             *)
RangeReadings ==
    {Reading(Q(415), i, Rat(42, 10), Rat(85, 100)) :
        i \in {Amps(Pow2(1023), Pow2(1023), Pow2(1023)),
               Amps(Pow2(-1074), Q(0), Q(0)),
               Amps(Pow2(-1073), Pow2(-1073), Pow2(-1073)),
               Amps(Pow2(600), Neg(Pow2(600)), Q(1))}}
    \cup {Reading(Pow2(1023), Amps(Q(10), Q(10), Q(10)), Rat(42, 10), Rat(85, 100)),
          Reading(Q(415), Amps(Q(10), Q(10), Q(10)), Rat(42, 10), Pow2(-1074)),
          Reading(Q(415), Amps(Mul(Q(6), Pow2(-1074)), Mul(Q(6), Pow2(-1074)),
                               Mul(Q(6), Pow2(-1074))), Q(48), Rat(85, 100))}

Readings ==
    VoltageSweep \cup CurrentSweep \cup FactorSweep \cup RoundingReadings
        \cup PrecedenceReadings \cup RangeReadings

SessionReadings ==
    {Reading(Q(415), Amps(Q(55), Q(54), Q(56)), Rat(42, 10), Rat(85, 100)),
     Reading(Q(461), Amps(Q(20), Q(20), Q(20)), Q(9), Q(1)),
     Reading(Q(415), Amps(Q(60), Q(60), Q(60)), Rat(42, 10), Q(0)),
     Reading(Q(0), Amps(Q(-10), Q(-10), Q(-10)), Q(0), Rat(85, 100)),
     Reading(Q(415), Amps(Rat(175, 100), Rat(175, 100), Rat(175, 100)), Q(12), Rat(85, 100))}

----------------------------------------------------------------------------
(* The state machine: an engine constructed from cfg, then calls of        *)
(* analyze_pump.  args, exc and result are the latest call's arguments and *)
(* outcome.                                                                *)

Init ==
    /\ cfg \in Configs
    /\ self = __init__(cfg)
    /\ args = <<>>
    /\ exc = "none"
    /\ result = <<>>
    /\ ncalls = 0

(* What a call with arguments a and outcome out leaves behind.             *)
Called(a, out) ==
    /\ args' = <<a>>
    /\ exc' = out.exc
    /\ result' = out.ret
    /\ self' = self_after_analyze_pump(self, a)

AnalyzePump(pool, limit) ==
    /\ ncalls < limit
    /\ \E a \in pool : Called(a, analyze_pump(self, a))
    /\ ncalls' = ncalls + 1
    /\ cfg' = cfg

(* One reading diagnosed, drawn from the whole input grid.                 *)
Diagnose == AnalyzePump(Readings, 1)

Next == Diagnose

Spec == Init /\ [][Next]_vars

(* A session: up to MaxCalls readings diagnosed on the same engine.        *)
DiagnoseAgain == AnalyzePump(SessionReadings, MaxCalls)

NextSession == DiagnoseAgain

SpecSession == Init /\ [][NextSession]_vars

Returned == ncalls > 0 /\ exc = "none"

Res == result[1]

Arg == args[1]

----------------------------------------------------------------------------
(* Properties.                                                             *)

Status(words) == [k \in 1..Len(words) |-> Lit(words[k])]

ArgAvg == avg_amps(Arg.i1, Arg.i2, Arg.i3)

(* The eight rules of the fault classifier, read off the returned dict and *)
(* the arguments of the call.                                              *)
RuleHolds(k) ==
    CASE k = 1 -> HasCritical(Res.volt_status)
      [] k = 2 -> HasCritical(Res.imb_status)
      [] k = 3 -> Lt(Res.load_pct, Q(30))
      [] k = 4 -> Gt(Res.load_pct, Q(65)) /\ Lt(Arg.pressure_bar, Rat(15, 10))
      [] k = 5 -> Gt(Arg.pressure_bar, Q(8)) /\ Lt(Res.flow, Q(2))
      [] k = 6 -> Gt(Res.load_pct, Q(105))
      [] k = 7 -> Lt(Res.eff_pump, Q(45))
      [] OTHER -> TRUE

RuleStatus ==
    <<"DANGER: GRID INSTABILITY", "DANGER: PHASE IMBALANCE",
      "CRITICAL: DRY RUN DETECTED", "CRITICAL: BURST PIPE / ZERO HEAD",
      "WARNING: BLOCKAGE / DEAD-HEAD", "WARNING: MOTOR OVERLOAD",
      "WARNING: POOR EFFICIENCY", "OPTIMAL">>

RuleSeverity ==
    <<"CRITICAL", "CRITICAL", "CRITICAL", "CRITICAL",
      "WARNING", "WARNING", "WARNING", "NORMAL">>

FirstRule ==
    CHOOSE k \in 1..Len(RuleStatus) : RuleHolds(k) /\ \A j \in 1..(k - 1) : ~RuleHolds(j)

(* C1: the status and severity returned are those of the first of the      *)
(* eight rules, in the documented order, whose condition holds; a rule is  *)
(* never reported while a rule of higher precedence holds.                 *)
C1_FirstRuleWins ==
    Returned =>
        /\ Res.status = RuleStatus[FirstRule]
        /\ Res.severity = RuleSeverity[FirstRule]
        /\ \A k \in 1..Len(RuleStatus) :
              Res.status = RuleStatus[k] => \A j \in 1..(k - 1) : ~RuleHolds(j)

(* A call where burst pipe is reported while the overload rule holds too.  *)
C1_Witness ==
    /\ Returned
    /\ Res.status = "CRITICAL: BURST PIPE / ZERO HEAD"
    /\ RuleHolds(6)

(* C2: whenever the returned status is CRITICAL: DRY RUN DETECTED, the     *)
(* estimated flow in the result is exactly 0, whatever the pressure.       *)
C2_DryRunZeroFlow ==
    (Returned /\ Res.status = "CRITICAL: DRY RUN DETECTED") => Res.flow = Q(0)

(* C3: every call of analyze_pump, for every numeric configuration and     *)
(* reading (power factor 0 included), completes and returns a result: no   *)
(* division by zero is performed.                                          *)
C3_AlwaysReturns ==
    ncalls > 0 => (exc = "none" /\ Len(result) = 1)

(* Python's >= and <= on floats: false when either side is not a number.   *)
Ge(x, y) == ~IsNaN(x) /\ ~IsNaN(y) /\ ~Lt(x, y)

Le(x, y) == ~IsNaN(x) /\ ~IsNaN(y) /\ ~Gt(x, y)

(* C5: the returned imbalance percentage is >= 0 and the returned pump     *)
(* efficiency lies in [0, 99.9].                                           *)
C5_Ranges ==
    Returned =>
        /\ Ge(Res.imb_pct, Q(0))
        /\ Ge(Res.eff_pump, Q(0))
        /\ Le(Res.eff_pump, Rat(999, 10))

(* C6: monthly cost is real_kW * unit_cost * 24 * 30, and the savings are  *)
(* max(0, cost - optimal cost) when 0 < total efficiency < 50, otherwise   *)
(* a quarter of the cost when the severity is not NORMAL, otherwise 0.     *)
C6_Savings ==
    Returned =>
        LET hydraulic == TrueDiv(Mul(Mul(Res.flow, Res.head), Rat(981, 100)), Q(3600))
            monthly   == Mul(Mul(Mul(Res.kw, self.UNIT_COST), Q(24)), Q(30))
            optimal   == Mul(Mul(Mul(TrueDiv(TrueDiv(hydraulic, Rat(6, 10)), Rat(92, 100)),
                                     self.UNIT_COST), Q(24)), Q(30))
        IN  /\ Res.cost_mo = monthly
            /\ IF Gt(Res.eff_total, Q(0)) /\ Lt(Res.eff_total, Q(50))
               THEN Res.savings = Max2(Q(0), Sub(monthly, optimal))
               ELSE IF Res.severity # "NORMAL"
               THEN Res.savings = Mul(monthly, Rat(1, 4))
               ELSE Res.savings = Q(0)

(* A reading whose total efficiency lies strictly between 0 and 50, with   *)
(* positive savings that are not a quarter of the monthly cost.            *)
C6_Witness ==
    /\ Returned
    /\ Gt(Res.eff_total, Q(0))
    /\ Lt(Res.eff_total, Q(50))
    /\ Gt(Res.savings, Q(0))
    /\ Res.savings # Mul(Res.cost_mo, Rat(1, 4))

Between(x, lo, hi) == Ge(x, lo) /\ Le(x, hi)

CanonicalFixture ==
    /\ Returned
    /\ cfg = Config(Q(30), Q(280), Rat(4, 10))
    /\ Arg = Reading(Q(415), Amps(Q(55), Q(54), Q(56)), Rat(42, 10), Rat(85, 100))

(* C7 as stated: on the canonical fixture the imbalance is about 1.8 %     *)
(* (BALANCED), the real power about 39.5 kW, the load about 95 %, the head *)
(* about 42.8 m and the severity NORMAL or WARNING.                        *)
C7_FixtureAsStated ==
    CanonicalFixture =>
        /\ Between(Res.imb_pct, Rat(175, 100), Rat(185, 100))
        /\ Res.imb_status = Status(<<"BALANCED">>)
        /\ Between(Res.kw, Rat(3945, 100), Rat(3955, 100))
        /\ Between(Res.load_pct, Rat(945, 10), Rat(955, 10))
        /\ Between(Res.head, Rat(4275, 100), Rat(4285, 100))
        /\ Res.severity \in {"NORMAL", "WARNING"}

(* C7 as amended: on the canonical fixture the imbalance is about 1.8 %    *)
(* (BALANCED), the real power about 33.6 kW, the load about 112 %, the     *)
(* head about 42.8 m and the severity NORMAL or WARNING.                   *)
C7_Fixture ==
    CanonicalFixture =>
        /\ Between(Res.imb_pct, Rat(175, 100), Rat(185, 100))
        /\ Res.imb_status = Status(<<"BALANCED">>)
        /\ Between(Res.kw, Rat(3355, 100), Rat(3365, 100))
        /\ Between(Res.load_pct, Rat(1115, 10), Rat(1125, 10))
        /\ Between(Res.head, Rat(4275, 100), Rat(4285, 100))
        /\ Res.severity \in {"NORMAL", "WARNING"}

C7_Witness == CanonicalFixture /\ Res.status = "WARNING: MOTOR OVERLOAD"

DeadHeadReading ==
    /\ Returned
    /\ Arg.voltage = Q(415)
    /\ Arg.i1 = Arg.i2 /\ Arg.i2 = Arg.i3
    /\ Arg.pressure_bar = Q(9)
    /\ Lt(Res.flow, Q(2))

(* C8 as stated: at 415 V with equal phase currents and 9.0 bar, a current *)
(* low enough for an estimated flow below 2.0 yields the blockage warning, *)
(* for any rated power (stated for a positive current and the default      *)
(* power factor, the reading the claim describes).                         *)
C8_BlockageAsStated ==
    (DeadHeadReading /\ Gt(Arg.i1, Q(0)) /\ Arg.pf = Rat(85, 100)) =>
        (Res.status = "WARNING: BLOCKAGE / DEAD-HEAD" /\ Res.severity = "WARNING")

(* C8 as amended: the same reading yields the blockage warning provided    *)
(* the load is at least 30 % (below 30 % the dry-run rule comes first).    *)
C8_Blockage ==
    (DeadHeadReading /\ Ge(Res.load_pct, Q(30))) =>
        (Res.status = "WARNING: BLOCKAGE / DEAD-HEAD" /\ Res.severity = "WARNING")

C8_Witness ==
    /\ DeadHeadReading
    /\ Ge(Res.load_pct, Q(30))
    /\ Gt(Res.flow, Q(0))

(* C9: a reading whose average phase current is zero or negative returns   *)
(* imbalance exactly 0 and estimated flow exactly 0, for every pressure.   *)
C9_NonPositiveCurrent ==
    (Returned /\ Le(ArgAvg, Q(0))) => (Res.imb_pct = Q(0) /\ Res.flow = Q(0))

(* C10: with the voltage floored to 1.0, the voltage status is             *)
(* CRITICAL: UNDER-VOLTAGE exactly when it is < 370, CRITICAL: SURGE       *)
(* exactly when it is > 460 and STABLE otherwise; 370 and 460 are STABLE   *)
(* and never reported as grid instability.                                 *)
C10_VoltageBands ==
    Returned =>
        /\ Res.input_volts = IF Lt(Arg.voltage, Q(1)) THEN Q(1) ELSE Arg.voltage
        /\ Res.volt_status = Status(<<"CRITICAL", ": ", "UNDER-VOLTAGE">>)
              <=> Lt(Res.input_volts, Q(370))
        /\ Res.volt_status = Status(<<"CRITICAL", ": ", "SURGE">>)
              <=> Gt(Res.input_volts, Q(460))
        /\ Res.volt_status = Status(<<"STABLE">>)
              <=> ~(Lt(Res.input_volts, Q(370)) \/ Gt(Res.input_volts, Q(460)))
        /\ Arg.voltage \in {Q(370), Q(460)} =>
              /\ Res.volt_status = Status(<<"STABLE">>)
              /\ Res.status # "DANGER: GRID INSTABILITY"

C10_Witness ==
    /\ Returned
    /\ Arg.voltage \in {Q(370), Q(460)}
    /\ Res.volt_status = Status(<<"STABLE">>)

(* The imbalance percentage by its definition: the largest deviation of a  *)
(* phase current from the average, relative to the average, times 100; 0   *)
(* when the average is not positive.                                       *)
ArgMaxDev ==
    LET devs == {Abs(Sub(Arg.i1, ArgAvg)), Abs(Sub(Arg.i2, ArgAvg)),
                 Abs(Sub(Arg.i3, ArgAvg))}
    IN  CHOOSE d \in devs : \A e \in devs : ~Lt(d, e)

ArgImbalance ==
    IF Gt(ArgAvg, Q(0)) THEN Mul(TrueDiv(ArgMaxDev, ArgAvg), Q(100)) ELSE Q(0)

ImbBand == Res.imb_status[1].lit

(* C11 as stated: the imbalance percentage is max |I_n - avg| / avg * 100  *)
(* (0 when avg <= 0) and the imbalance status is CRITICAL when it is > 5.0,*)
(* WARNING when it lies in 2.0 to 5.0, both ends included, and BALANCED    *)
(* otherwise.  Stated for the 30 kW configuration and readings at 415 V,   *)
(* 4.2 bar and the default power factor.                                   *)
C11_BandsAsStated ==
    (Returned /\ cfg.rated_kw = Q(30) /\ Arg.pf = Rat(85, 100)
              /\ Arg.voltage = Q(415) /\ Arg.pressure_bar = Rat(42, 10)) =>
        /\ Res.imb_pct = ArgImbalance
        /\ ImbBand = "CRITICAL" <=> Gt(Res.imb_pct, Q(5))
        /\ ImbBand = "WARNING"
              <=> (Ge(Res.imb_pct, Q(2)) /\ Le(Res.imb_pct, Q(5)))
        /\ ImbBand = "BALANCED"
              <=> ~(Gt(Res.imb_pct, Q(5))
                      \/ (Ge(Res.imb_pct, Q(2)) /\ Le(Res.imb_pct, Q(5))))

(* C11 as amended: the same, for every configuration and reading, with    *)
(* WARNING when the percentage is above 2.0 and at most 5.0 and BALANCED   *)
(* otherwise: when it is at most 2.0 or not a number.                      *)
C11_Bands ==
    Returned =>
        /\ Res.imb_pct = ArgImbalance
        /\ ImbBand = "CRITICAL" <=> Gt(Res.imb_pct, Q(5))
        /\ ImbBand = "WARNING"
              <=> (Gt(Res.imb_pct, Q(2)) /\ Le(Res.imb_pct, Q(5)))
        /\ ImbBand = "BALANCED"
              <=> ~(Gt(Res.imb_pct, Q(5))
                      \/ (Gt(Res.imb_pct, Q(2)) /\ Le(Res.imb_pct, Q(5))))
        /\ ImbBand \in {"CRITICAL", "WARNING"} =>
              Res.imb_status = <<Lit(ImbBand), Lit(": "),
                                 [lit |-> "%.1f", num |-> Fmt1(ArgImbalance)],
                                 Lit("% IMBALANCE")>>

(* An imbalance of exactly 2.0 %, reported BALANCED.                       *)
C11_Witness ==
    /\ Returned
    /\ Res.imb_pct = Q(2)
    /\ Res.imb_status = Status(<<"BALANCED">>)

(* Hydraulic power recomputed from the returned flow and head.             *)
ResHydraulic ==
    TrueDiv(Mul(Mul(Res.flow, Res.head), Rat(981, 100)), Q(3600))

(* A float that exact arithmetic stands for up to rounding: zero or a      *)
(* normal number, neither subnormal nor infinite nor nan.                  *)
InRange(x) == IsZero(x) \/ (x.exp < 1024 /\ BitLen(x.man) = 53)

NearSixty(pct) == Between(pct, Rat(59999999, 1000000), Rat(60000001, 1000000))

(* C12: in exact arithmetic, which the floats follow to within rounding    *)
(* while the real power, the flow and the hydraulic power stay in the      *)
(* normal range: the hydraulic power is 0 or 0.60 * real_kW and the total  *)
(* efficiency returned is 0 or 60 (one part in a million bounds the        *)
(* rounding), so the efficiency is never strictly between 0 and 50; the    *)
(* savings are 0 or a quarter of the monthly cost (the optimal-power       *)
(* branch is never taken); and WARNING: POOR EFFICIENCY is returned only   *)
(* with a pump efficiency of exactly 0.                                    *)
C12_SixtyPercent ==
    (Returned /\ InRange(Res.kw) /\ InRange(Res.flow) /\ InRange(ResHydraulic)) =>
        /\ \/ ResHydraulic = Q(0)
           \/ NearSixty(Mul(TrueDiv(ResHydraulic, Res.kw), Q(100)))
        /\ Res.eff_total = Q(0) \/ NearSixty(Res.eff_total)
        /\ ~(Gt(Res.eff_total, Q(0)) /\ Lt(Res.eff_total, Q(50)))
        /\ Res.savings \in {Q(0), Mul(Res.cost_mo, Rat(25, 100))}
        /\ Res.status = "WARNING: POOR EFFICIENCY" => Res.eff_pump = Q(0)

(* A call drawing real power that is reported as WARNING: POOR EFFICIENCY, *)
(* with a quarter of the positive monthly cost as savings.                 *)
C12_Witness ==
    /\ Returned
    /\ Res.status = "WARNING: POOR EFFICIENCY"
    /\ Res.eff_pump = Q(0)
    /\ Gt(Res.kw, Q(0))
    /\ Gt(Res.cost_mo, Q(0))
    /\ Res.savings = Mul(Res.cost_mo, Rat(1, 4))

====
